---- MODULE Spec2Model ----
(***************************************************************************)
(* toolsws.wstypes: the two uwsgi web service types.                       *)
(*   PythonWebService  (src/toolsws/wstypes/python.py)                     *)
(*   UwsgiWebService   (src/toolsws/wstypes/uwsgi.py)                      *)
(* One web service object of one of the two classes is constructed for a   *)
(* tool; its check and run methods are called; run hands a command line to *)
(* subprocess.check_call.  The filesystem under the tool's home directory  *)
(* is shared with other processes.                                         *)
(***************************************************************************)
EXTENDS Integers, Sequences, FiniteSets, TLC

VARIABLES
    mode,       \* which class the object is: "python" or "plain"
    tool,       \* self.tool: [name, home]
    fs,         \* the set of paths that exist now
    pc,         \* position of the caller / of run
    wstype,     \* argument of the last call of check
    checks,     \* number of calls of check so far
    checkSaw,   \* whether the class's required path existed at the last check
    fsChanged,  \* the filesystem was changed by others since the last check
    exc,        \* the exception that is propagating, or NoExc
    port,       \* argument of run
    basePort,   \* argument that reached WebService.run
    command,    \* the local variable command of run
    runFs,      \* the paths that existed when run built the command
    events,     \* the steps run has taken, in order
    popen,      \* the subprocesses started: [args, stdin, stdout, stderr]
    launchSaw,  \* whether the required path existed when check_call was entered
    returncode  \* exit status of the subprocess once it has exited: << >> or <<rc>>

vars == << mode, tool, fs, pc, wstype, checks, checkSaw, fsChanged, exc, port,
           basePort, command, runFs, events, popen, launchSaw, returncode >>

----------------------------------------------------------------------------
(* Bounds *)

MaxChecks == 2      \* calls of check in one execution
MaxExit == 1        \* exit statuses range over -MaxExit .. MaxExit
PortSpan == 1       \* ports 8000 .. 8000 + PortSpan besides port 4

Modes == {"python", "plain"}
Tools == { [name |-> "t1", home |-> "/data/project/t1"],
           [name |-> "my-tool", home |-> "/home/my-tool"] }
WsTypes == {"uwsgi-python", "uwsgi-plain", "generic"}
Ports == {4} \cup {8000 + k : k \in 0..PortSpan}
ExitCodes == (0 - MaxExit) .. MaxExit

NoExc == [type |-> "none", msg |-> ""]
NoPort == 0 - 1

----------------------------------------------------------------------------
(* Helpers of the language and the libraries *)

\* str(d) for one decimal digit
Digit(d) ==
    CASE d = 0 -> "0" [] d = 1 -> "1" [] d = 2 -> "2" [] d = 3 -> "3"
      [] d = 4 -> "4" [] d = 5 -> "5" [] d = 6 -> "6" [] d = 7 -> "7"
      [] d = 8 -> "8" [] d = 9 -> "9"

\* str(n) for a non-negative int: its decimal form
RECURSIVE str(_)
str(n) == IF n < 10 THEN Digit(n) ELSE str(n \div 10) \o Digit(n % 10)

\* self.tool.get_homedir_subpath(path)
get_homedir_subpath(t, path) == t.home \o "/" \o path

\* os.path.exists(path) on the filesystem f
os_path_exists(f, path) == path \in f

\* the paths under the tool's home that the two classes name
SubPaths == {"www/python/src", "www/python/venv", "www/python/uwsgi.ini", "uwsgi.ini"}
HomePaths(t) == { get_homedir_subpath(t, p) : p \in SubPaths }

\* the path whose existence each class's check is about
RequiredPath(m, t) ==
    IF m = "python" THEN get_homedir_subpath(t, "www/python/src")
                    ELSE get_homedir_subpath(t, "uwsgi.ini")

Saw(f, path) == IF os_path_exists(f, path) THEN "present" ELSE "missing"

----------------------------------------------------------------------------
(* The caller: check is called, possibly again, before run; run is called *)
(* only after check returned and when no check has raised                 *)

CanCheck == pc \in {"start", "checked", "raised"} /\ checks < MaxChecks
CanRun == pc = "checked" /\ exc = NoExc

----------------------------------------------------------------------------
(* PythonWebService *)

\* variants of the definitions below, each changed the way a slip in the
\* code would change it; the properties are checked to tell them apart
PythonCheckMissing_Venv(f, t) ==
    ~os_path_exists(f, get_homedir_subpath(t, "www/python/venv"))

PythonCheckMissing_Inverted(f, t) ==
    os_path_exists(f, get_homedir_subpath(t, "www/python/src"))

PythonCheckMissing(f, t) ==
    ~os_path_exists(f, get_homedir_subpath(t, "www/python/src"))

PythonCheckMessage ==
    "Could not find ~/www/python/src. Are you sure you have a "
    \o "proper uwsgi application in ~/www/python/src?"

\* variant: check creates the missing directory instead of raising
PythonCheck_Makedirs ==
    /\ mode = "python"
    /\ CanCheck
    /\ \E w \in WsTypes : wstype' = w
    /\ checks' = checks + 1
    /\ checkSaw' = Saw(fs, RequiredPath(mode, tool))
    /\ fsChanged' = FALSE
    /\ fs' = fs \cup {get_homedir_subpath(tool, "www/python/src")}
    /\ exc' = exc
    /\ pc' = "checked"
    /\ UNCHANGED << mode, tool, port, basePort, command, runFs, events,
                    popen, launchSaw, returncode >>

PythonCheck ==
    /\ mode = "python"
    /\ CanCheck
    /\ \E w \in WsTypes : wstype' = w
    /\ checks' = checks + 1
    /\ checkSaw' = Saw(fs, RequiredPath(mode, tool))
    /\ fsChanged' = FALSE
    /\ IF PythonCheckMissing(fs, tool)
       THEN /\ exc' = [type |-> "InvalidWebServiceException",
                       msg |-> PythonCheckMessage]
            /\ pc' = "raised"
       ELSE /\ exc' = exc
            /\ pc' = "checked"
    /\ UNCHANGED << mode, tool, fs, port, basePort, command, runFs, events,
                    popen, launchSaw, returncode >>

\* super(PythonWebService, self).run(port): the base class's body is not
\* part of these files; the call passes port on and returns or raises
PythonRunSuper ==
    /\ mode = "python"
    /\ CanRun
    /\ \E p \in Ports :
         /\ port' = p
         /\ basePort' = p
    /\ events' = Append(events, "WebService.run")
    /\ \E ok \in BOOLEAN :
         IF ok THEN pc' = "super" /\ exc' = exc
               ELSE pc' = "super_raised"
                    /\ exc' = [type |-> "Exception", msg |-> "WebService.run"]
    /\ UNCHANGED << mode, tool, fs, wstype, checks, checkSaw, fsChanged,
                    command, runFs, popen, launchSaw, returncode >>

\* variant: the socket address without its colon
PythonCommandFixed_NoColon(t, p) ==
    << "/usr/bin/uwsgi", "--plugin", "python,python3",
       "--http-socket", str(p),
       "--chdir", get_homedir_subpath(t, "www/python/src"),
       "--logto", get_homedir_subpath(t, "uwsgi.log"),
       "--callable", "app", "--manage-script-name", "--workers", "4",
       "--mount",
       "/" \o t.name \o "=" \o get_homedir_subpath(t, "www/python/src/app.py"),
       "--die-on-term", "--strict", "--master" >>

PythonCommandFixed(t, p) ==
    << "/usr/bin/uwsgi",
       "--plugin",
       "python,python3",
       "--http-socket",
       ":" \o str(p),
       "--chdir",
       get_homedir_subpath(t, "www/python/src"),
       "--logto",
       get_homedir_subpath(t, "uwsgi.log"),
       "--callable",
       "app",
       "--manage-script-name",
       "--workers",
       "4",
       "--mount",
       "/" \o t.name \o "=" \o get_homedir_subpath(t, "www/python/src/app.py"),
       "--die-on-term",
       "--strict",
       "--master" >>

\* variant: the ini test looks at ~/uwsgi.ini, the other class's file
PythonCommand_PlainIni(f, t, p) ==
    LET c0 == PythonCommandFixed(t, p)
        c1 == IF os_path_exists(f, get_homedir_subpath(t, "www/python/venv"))
              THEN c0 \o << "--venv", get_homedir_subpath(t, "www/python/venv") >>
              ELSE c0
        c2 == IF os_path_exists(f, get_homedir_subpath(t, "uwsgi.ini"))
              THEN c1 \o << "--ini", get_homedir_subpath(t, "www/python/uwsgi.ini") >>
              ELSE c1
    IN  c2

\* variant: the two conditional blocks in the other order
PythonCommand_IniFirst(f, t, p) ==
    LET c0 == PythonCommandFixed(t, p)
        c1 == IF os_path_exists(f, get_homedir_subpath(t, "www/python/uwsgi.ini"))
              THEN c0 \o << "--ini", get_homedir_subpath(t, "www/python/uwsgi.ini") >>
              ELSE c0
        c2 == IF os_path_exists(f, get_homedir_subpath(t, "www/python/venv"))
              THEN c1 \o << "--venv", get_homedir_subpath(t, "www/python/venv") >>
              ELSE c1
    IN  c2

PythonCommand(f, t, p) ==
    LET c0 == PythonCommandFixed(t, p)
        c1 == IF os_path_exists(f, get_homedir_subpath(t, "www/python/venv"))
              THEN c0 \o << "--venv", get_homedir_subpath(t, "www/python/venv") >>
              ELSE c0
        c2 == IF os_path_exists(f, get_homedir_subpath(t, "www/python/uwsgi.ini"))
              THEN c1 \o << "--ini", get_homedir_subpath(t, "www/python/uwsgi.ini") >>
              ELSE c1
    IN  c2

PythonRunBuild ==
    /\ mode = "python"
    /\ pc = "super"
    /\ command' = PythonCommand(fs, tool, port)
    /\ runFs' = fs
    /\ events' = Append(events, "command")
    /\ pc' = "built"
    /\ UNCHANGED << mode, tool, fs, wstype, checks, checkSaw, fsChanged, exc,
                    port, basePort, popen, launchSaw, returncode >>

\* variant: the child is started without the caller's stdin
PythonRunCheckCall_NoStdin ==
    /\ mode = "python"
    /\ pc = "built"
    /\ popen' = Append(popen, [args |-> command, stdin |-> "None",
                               stdout |-> "sys.stdout", stderr |-> "sys.stderr"])
    /\ launchSaw' = Saw(fs, RequiredPath(mode, tool))
    /\ events' = Append(events, "check_call")
    /\ pc' = "waiting"
    /\ UNCHANGED << mode, tool, fs, wstype, checks, checkSaw, fsChanged, exc,
                    port, basePort, command, runFs, returncode >>

\* subprocess.check_call(command, stdin=sys.stdin, stdout=sys.stdout,
\* stderr=sys.stderr): the child is started and run waits for it
PythonRunCheckCall ==
    /\ mode = "python"
    /\ pc = "built"
    /\ popen' = Append(popen, [args |-> command, stdin |-> "sys.stdin",
                               stdout |-> "sys.stdout", stderr |-> "sys.stderr"])
    /\ launchSaw' = Saw(fs, RequiredPath(mode, tool))
    /\ events' = Append(events, "check_call")
    /\ pc' = "waiting"
    /\ UNCHANGED << mode, tool, fs, wstype, checks, checkSaw, fsChanged, exc,
                    port, basePort, command, runFs, returncode >>

\* variant: subprocess.call in place of check_call, the status is ignored
PythonRunExit_Call ==
    /\ mode = "python"
    /\ pc = "waiting"
    /\ \E rc \in ExitCodes : returncode' = << rc >>
    /\ pc' = "returned"
    /\ UNCHANGED << mode, tool, fs, wstype, checks, checkSaw, fsChanged, exc,
                    port, basePort, command, runFs, events, popen, launchSaw >>

\* check_call returns when the child exits with status zero and raises
\* CalledProcessError otherwise
PythonRunExit ==
    /\ mode = "python"
    /\ pc = "waiting"
    /\ \E rc \in ExitCodes :
         /\ returncode' = << rc >>
         /\ IF rc = 0
            THEN pc' = "returned" /\ exc' = exc
            ELSE pc' = "failed"
                 /\ exc' = [type |-> "CalledProcessError", msg |-> "uwsgi"]
    /\ UNCHANGED << mode, tool, fs, wstype, checks, checkSaw, fsChanged, port,
                    basePort, command, runFs, events, popen, launchSaw >>

----------------------------------------------------------------------------
(* UwsgiWebService *)

\* variant: check looks at www/python/uwsgi.ini, the other class's file
UwsgiCheckMissing_PythonIni(f, t) ==
    ~os_path_exists(f, get_homedir_subpath(t, "www/python/uwsgi.ini"))

UwsgiCheckMissing(f, t) ==
    ~os_path_exists(f, get_homedir_subpath(t, "uwsgi.ini"))

UwsgiCheckMessage ==
    "Could not find ~/uwsgi.ini. Are you sure you have a "
    \o "proper uwsgi config setup in ~/uwsgi.ini?"

UwsgiCheck ==
    /\ mode = "plain"
    /\ CanCheck
    /\ \E w \in WsTypes : wstype' = w
    /\ checks' = checks + 1
    /\ checkSaw' = Saw(fs, RequiredPath(mode, tool))
    /\ fsChanged' = FALSE
    /\ IF UwsgiCheckMissing(fs, tool)
       THEN /\ exc' = [type |-> "InvalidWebServiceException",
                       msg |-> UwsgiCheckMessage]
            /\ pc' = "raised"
       ELSE /\ exc' = exc
            /\ pc' = "checked"
    /\ UNCHANGED << mode, tool, fs, port, basePort, command, runFs, events,
                    popen, launchSaw, returncode >>

\* super(UwsgiWebService, self).run(port)
UwsgiRunSuper ==
    /\ mode = "plain"
    /\ CanRun
    /\ \E p \in Ports :
         /\ port' = p
         /\ basePort' = p
    /\ events' = Append(events, "WebService.run")
    /\ \E ok \in BOOLEAN :
         IF ok THEN pc' = "super" /\ exc' = exc
               ELSE pc' = "super_raised"
                    /\ exc' = [type |-> "Exception", msg |-> "WebService.run"]
    /\ UNCHANGED << mode, tool, fs, wstype, checks, checkSaw, fsChanged,
                    command, runFs, popen, launchSaw, returncode >>

\* variant: --ini only when the file exists, as in the other class
UwsgiCommand_IniIfExists(f, t, p) ==
    LET c0 == << "/usr/bin/uwsgi", "--http-socket", ":" \o str(p),
                 "--logto", get_homedir_subpath(t, "uwsgi.log") >>
        c1 == IF os_path_exists(f, get_homedir_subpath(t, "uwsgi.ini"))
              THEN c0 \o << "--ini", get_homedir_subpath(t, "uwsgi.ini") >>
              ELSE c0
    IN  c1 \o << "--workers", "4", "--die-on-term", "--strict", "--master" >>

UwsgiCommand(f, t, p) ==
    << "/usr/bin/uwsgi",
       "--http-socket",
       ":" \o str(p),
       "--logto",
       get_homedir_subpath(t, "uwsgi.log"),
       "--ini",
       get_homedir_subpath(t, "uwsgi.ini"),
       "--workers",
       "4",
       "--die-on-term",
       "--strict",
       "--master" >>

UwsgiRunBuild ==
    /\ mode = "plain"
    /\ pc = "super"
    /\ command' = UwsgiCommand(fs, tool, port)
    /\ runFs' = fs
    /\ events' = Append(events, "command")
    /\ pc' = "built"
    /\ UNCHANGED << mode, tool, fs, wstype, checks, checkSaw, fsChanged, exc,
                    port, basePort, popen, launchSaw, returncode >>

UwsgiRunCheckCall ==
    /\ mode = "plain"
    /\ pc = "built"
    /\ popen' = Append(popen, [args |-> command, stdin |-> "sys.stdin",
                               stdout |-> "sys.stdout", stderr |-> "sys.stderr"])
    /\ launchSaw' = Saw(fs, RequiredPath(mode, tool))
    /\ events' = Append(events, "check_call")
    /\ pc' = "waiting"
    /\ UNCHANGED << mode, tool, fs, wstype, checks, checkSaw, fsChanged, exc,
                    port, basePort, command, runFs, returncode >>

UwsgiRunExit ==
    /\ mode = "plain"
    /\ pc = "waiting"
    /\ \E rc \in ExitCodes :
         /\ returncode' = << rc >>
         /\ IF rc = 0
            THEN pc' = "returned" /\ exc' = exc
            ELSE pc' = "failed"
                 /\ exc' = [type |-> "CalledProcessError", msg |-> "uwsgi"]
    /\ UNCHANGED << mode, tool, fs, wstype, checks, checkSaw, fsChanged, port,
                    basePort, command, runFs, events, popen, launchSaw >>

----------------------------------------------------------------------------
(* The filesystem is shared: another process creates or removes a path *)

FsChange ==
    /\ \E path \in HomePaths(tool) :
         fs' = IF path \in fs THEN fs \ {path} ELSE fs \cup {path}
    /\ fsChanged' = TRUE
    /\ UNCHANGED << mode, tool, pc, wstype, checks, checkSaw, exc, port,
                    basePort, command, runFs, events, popen, launchSaw,
                    returncode >>

----------------------------------------------------------------------------

Init ==
    /\ mode \in Modes
    /\ tool \in Tools
    /\ fs \in SUBSET HomePaths(tool)
    /\ pc = "start"
    /\ wstype = "none"
    /\ checks = 0
    /\ checkSaw = "none"
    /\ fsChanged = FALSE
    /\ exc = NoExc
    /\ port = NoPort
    /\ basePort = NoPort
    /\ command = << >>
    /\ runFs = {}
    /\ events = << >>
    /\ popen = << >>
    /\ launchSaw = "none"
    /\ returncode = << >>

Next ==
    \/ PythonCheck
    \/ PythonRunSuper
    \/ PythonRunBuild
    \/ PythonRunCheckCall
    \/ PythonRunExit
    \/ UwsgiCheck
    \/ UwsgiRunSuper
    \/ UwsgiRunBuild
    \/ UwsgiRunCheckCall
    \/ UwsgiRunExit
    \/ FsChange

Spec == Init /\ [][Next]_vars

----------------------------------------------------------------------------
(* Vocabulary of the properties *)

Count(seq, x) == Cardinality({ i \in DOMAIN seq : seq[i] = x })

\* the positions where flag is immediately followed by val
PairAt(seq, flag, val) ==
    { i \in 1..(Len(seq) - 1) : seq[i] = flag /\ seq[i + 1] = val }

HasPair(seq, flag, val) == PairAt(seq, flag, val) # {}

\* sub occurs in the string s
Contains(s, sub) ==
    \E i \in 1..(Len(s) - Len(sub) + 1) : SubSeq(s, i, i + Len(sub) - 1) = sub

Built == pc \in {"built", "waiting", "returned", "failed"}
Launched == pc \in {"waiting", "returned", "failed"}

VenvPath == tool.home \o "/www/python/venv"
IniPath == tool.home \o "/www/python/uwsgi.ini"
SrcPath == tool.home \o "/www/python/src"
PlainIniPath == tool.home \o "/uwsgi.ini"

----------------------------------------------------------------------------
(* C1: PythonWebService.check raises InvalidWebServiceException exactly   *)
(* when <home>/www/python/src does not exist at the time of the call,      *)
(* whatever wstype is and whatever else exists; the message names          *)
(* ~/www/python/src; otherwise it returns normally.                        *)

C1_PythonCheckRaisesIffSrcMissing ==
    (mode = "python" /\ pc \in {"checked", "raised"}) =>
        /\ (pc = "raised") <=> (checkSaw = "missing")
        /\ (~fsChanged) => ((pc = "raised") <=> (SrcPath \notin fs))
        /\ (pc = "raised") =>
              /\ exc.type = "InvalidWebServiceException"
              /\ Contains(exc.msg, "~/www/python/src")

C1_Witness ==
    /\ mode = "python"
    /\ pc = "raised"
    /\ wstype = "uwsgi-plain"
    /\ ~fsChanged
    /\ SrcPath \notin fs
    /\ VenvPath \in fs
    /\ exc.type = "InvalidWebServiceException"

(* C2: UwsgiWebService.check raises InvalidWebServiceException exactly     *)
(* when <home>/uwsgi.ini does not exist at the time of the call, whatever  *)
(* wstype is; the message names ~/uwsgi.ini; www/python/src and            *)
(* www/python/uwsgi.ini have no influence.                                 *)

C2_UwsgiCheckRaisesIffIniMissing ==
    (mode = "plain" /\ pc \in {"checked", "raised"}) =>
        /\ (pc = "raised") <=> (checkSaw = "missing")
        /\ (~fsChanged) => ((pc = "raised") <=> (PlainIniPath \notin fs))
        /\ (pc = "raised") =>
              /\ exc.type = "InvalidWebServiceException"
              /\ Contains(exc.msg, "~/uwsgi.ini")

C2_Witness ==
    /\ mode = "plain"
    /\ pc = "raised"
    /\ wstype = "uwsgi-python"
    /\ ~fsChanged
    /\ PlainIniPath \notin fs
    /\ SrcPath \in fs
    /\ IniPath \in fs
    /\ exc.type = "InvalidWebServiceException"

(* C3: the command PythonWebService.run builds holds the pair --venv       *)
(* <home>/www/python/venv exactly when that path existed when the command  *)
(* was built, and the pair --ini <home>/www/python/uwsgi.ini exactly when  *)
(* that path existed; the two are independent, each pair occurs at most    *)
(* once, and nothing else is appended.                                     *)

C3_PythonConditionalFlags ==
    (mode = "python" /\ Built) =>
        /\ HasPair(command, "--venv", VenvPath) <=> (VenvPath \in runFs)
        /\ HasPair(command, "--ini", IniPath) <=> (IniPath \in runFs)
        /\ Count(command, "--venv") = (IF VenvPath \in runFs THEN 1 ELSE 0)
        /\ Count(command, "--ini") = (IF IniPath \in runFs THEN 1 ELSE 0)
        /\ Cardinality(PairAt(command, "--venv", VenvPath)) <= 1
        /\ Cardinality(PairAt(command, "--ini", IniPath)) <= 1
        /\ Len(command) = 19 + (IF VenvPath \in runFs THEN 2 ELSE 0)
                             + (IF IniPath \in runFs THEN 2 ELSE 0)

C3_Witness ==
    /\ mode = "python"
    /\ Built
    /\ VenvPath \in runFs
    /\ IniPath \notin runFs
    /\ HasPair(command, "--venv", VenvPath)
    /\ ~HasPair(command, "--ini", IniPath)


(* C4: the subprocess is launched only after check has found the class's   *)
(* required path to exist, and after a check has raised no launch follows; *)
(* run itself does not test the path again, so the path may have been      *)
(* removed by the time of the launch.                                      *)

C4_LaunchOnlyAfterCheckFound ==
    /\ (Len(popen) > 0) => (checkSaw = "present" /\ checks > 0)
    /\ (pc \in {"super", "super_raised", "built"}) => (checkSaw = "present")
    /\ (pc = "raised") => (checkSaw = "missing" /\ Len(popen) = 0)
    /\ (exc.type = "InvalidWebServiceException") =>
           (Len(popen) = 0 /\ pc \in {"raised", "checked"})

C4_Witness ==
    /\ Len(popen) = 1
    /\ checkSaw = "present"
    /\ launchSaw = "missing"

\* C4 as stated: no subprocess is ever launched for a tool whose required
\* path is missing
C4_NoLaunchWhenRequiredPathMissing ==
    (Len(popen) > 0) => (launchSaw = "present")

(* C5: a run that gets past the base-class run calls WebService.run(port)  *)
(* first, then builds the command, then starts exactly one subprocess with *)
(* the complete command and the caller's stdin, stdout and stderr; the     *)
(* command is not changed afterwards and no second subprocess is started.  *)

RunOrder == << "WebService.run", "command", "check_call" >>

C5_OneLaunchInOrder ==
    /\ Len(popen) <= 1
    /\ Len(events) <= Len(RunOrder)
    /\ events = SubSeq(RunOrder, 1, Len(events))
    /\ (pc \in {"super", "super_raised"}) => (Len(events) = 1 /\ basePort = port)
    /\ (pc = "built") => (Len(events) = 2 /\ Len(popen) = 0)
    /\ Launched <=> (Len(popen) = 1)
    /\ Launched =>
          /\ events = RunOrder
          /\ popen[1] = [args |-> command, stdin |-> "sys.stdin",
                         stdout |-> "sys.stdout", stderr |-> "sys.stderr"]
          /\ command[Len(command)] \in {"--master", VenvPath, IniPath}
          /\ Len(command) = IF mode = "plain" THEN 12
                            ELSE 19 + (IF VenvPath \in runFs THEN 2 ELSE 0)
                                    + (IF IniPath \in runFs THEN 2 ELSE 0)

C5_Witness ==
    /\ mode = "python"
    /\ pc = "returned"
    /\ Len(popen) = 1
    /\ Len(popen[1].args) = 23
    /\ events = RunOrder

(* C6: the command UwsgiWebService.run builds depends only on the tool's   *)
(* home and the port: 12 elements, the same as with no path existing and   *)
(* as with all existing, for every filesystem state run is reached in,     *)
(* with --ini <home>/uwsgi.ini exactly once whether or not the file exists *)
(* when run builds it, and none of --venv, --chdir, --mount, --callable,   *)
(* --plugin.                                                               *)

C6_UwsgiCommandFixed ==
    (mode = "plain" /\ Built) =>
        /\ Len(command) = 12
        /\ command = UwsgiCommand({}, tool, port)
        /\ command = UwsgiCommand(HomePaths(tool), tool, port)
        /\ PairAt(command, "--ini", PlainIniPath) = {6}
        /\ Count(command, "--ini") = 1
        /\ \A flag \in {"--venv", "--chdir", "--mount", "--callable", "--plugin"} :
              Count(command, flag) = 0

C6_Witness ==
    /\ mode = "plain"
    /\ Built
    /\ PlainIniPath \notin runFs
    /\ HasPair(command, "--ini", PlainIniPath)

(* C7: in PythonWebService.run the conditional flags are only appended:    *)
(* the first 19 elements, /usr/bin/uwsgi through --master, with --chdir    *)
(* <home>/www/python/src and --mount /<name>=<home>/www/python/src/app.py, *)
(* are the same for every filesystem state; --venv and --ini come after    *)
(* --master, --venv before --ini; every value-taking flag is immediately   *)
(* followed by its value.                                                  *)

ValueFlags == {"--plugin", "--http-socket", "--chdir", "--logto", "--callable",
               "--workers", "--mount", "--venv", "--ini"}

PythonFlagValue(flag) ==
    CASE flag = "--plugin" -> "python,python3"
      [] flag = "--http-socket" -> ":" \o str(port)
      [] flag = "--chdir" -> SrcPath
      [] flag = "--logto" -> tool.home \o "/uwsgi.log"
      [] flag = "--callable" -> "app"
      [] flag = "--workers" -> "4"
      [] flag = "--mount" -> "/" \o tool.name \o "=" \o SrcPath \o "/app.py"
      [] flag = "--venv" -> VenvPath
      [] flag = "--ini" -> IniPath

C7_PythonFixedPrefix ==
    (mode = "python" /\ Built) =>
        /\ Len(command) >= 19
        /\ command[1] = "/usr/bin/uwsgi"
        /\ command[19] = "--master"
        /\ SubSeq(command, 1, 19) = PythonCommand({}, tool, port)
        /\ PairAt(command, "--chdir", PythonFlagValue("--chdir")) = {6}
        /\ PairAt(command, "--mount", PythonFlagValue("--mount")) = {15}
        /\ \A i \in DOMAIN command : command[i] \in {"--venv", "--ini"} => i > 19
        /\ \A i, j \in DOMAIN command :
              (command[i] = "--venv" /\ command[j] = "--ini") => i < j
        /\ \A i \in DOMAIN command :
              command[i] \in ValueFlags =>
                 (i < Len(command) /\ command[i + 1] = PythonFlagValue(command[i]))

C7_Witness ==
    /\ mode = "python"
    /\ Built
    /\ Len(command) = 23
    /\ command[19] = "--master"
    /\ command[20] = "--venv"
    /\ command[22] = "--ini"

(* C8: in both modes the command holds --http-socket exactly once,         *)
(* immediately followed by ":" and the decimal form of the port passed to  *)
(* run, which is the port passed to the base-class run; no other element   *)
(* of the command depends on the port.                                     *)

CommandFor(p) ==
    IF mode = "python" THEN PythonCommand(runFs, tool, p)
                       ELSE UwsgiCommand(runFs, tool, p)

\* the position of the socket address
SocketAt == IF mode = "python" THEN 5 ELSE 3

C9_NoRetry ==
    /\ Len(popen) <= 1
    /\ (pc = "returned") => (returncode = << 0 >>)
    /\ (returncode # << >>) =>
          /\ Len(popen) = 1
          /\ pc \in {"returned", "failed"}
          /\ (returncode # << 0 >>) =>
                (pc = "failed" /\ exc.type = "CalledProcessError")

C9_Witness ==
    /\ pc = "failed"
    /\ returncode = << 1 >>
    /\ Len(popen) = 1
    /\ exc.type = "CalledProcessError"

(* C10: check only reads: a call of check, returning or raising, starts no *)
(* subprocess and leaves the filesystem, the tool and the object as they   *)
(* were; called again with the filesystem unchanged by others it has the   *)
(* same outcome.                                                           *)

C10_CheckIsPure ==
    [][ (checks' # checks) =>
          /\ fs' = fs
          /\ popen' = popen
          /\ tool' = tool
          /\ mode' = mode
          /\ command' = command
          /\ events' = events
          /\ (checks > 0 /\ ~fsChanged) => (pc' = pc /\ exc' = exc) ]_vars

C10_Witness ==
    /\ checks = 2
    /\ ~fsChanged
    /\ pc = "raised"
    /\ Len(popen) = 0

====
